---- MODULE Spec2Model ----
(***************************************************************************)
(* A model of scripts/biotech_digest.py: one invocation of main() reads    *)
(* the configuration and the seen-ledger, walks the feeds, collects the    *)
(* entries that pass the dedup gate and the keyword gate, caps the ledger, *)
(* writes the dated digest, saves the ledger and rewrites the README.      *)
(*                                                                         *)
(* Text is a sequence of code points (97 = a, 98 = b, 66 = B, 10 = \n,     *)
(* 32 = space, 60 = <, 62 = >, 38 = &, 59 = ;).  Keyword patterns are      *)
(* literal words, compiled with re.I.  sha256 is taken as injective, so a  *)
(* fingerprint is the byte string the hash object was fed.                 *)
(***************************************************************************)
EXTENDS Integers, Sequences, FiniteSets, TLC

\* ------------------------------------------------------------------ bounds
MaxRuns == 2
MaxEntries == 2
MaxCap == 2
MaxItems == 3
MaxText == 4
MaxBudget == 3

\* --------------------------------------------------------- program constants
DefaultMaxLen == 2000
SummaryBudget == 320
Ellipsis == 8230

\* ------------------------------------------------------------ text helpers
Range(s) == {s[i] : i \in 1..Len(s)}

SeqsUpTo(S, n) == UNION {[1..k -> S] : k \in 0..n}

\* str.lower() on the ASCII letters, which is what re.I compares
Lower(c) == IF c \in 65..90 THEN c + 32 ELSE c

IsSpace(c) == c \in {9, 10, 11, 12, 13, 32}

RECURSIVE LStrip(_)
LStrip(s) == IF s # <<>> /\ IsSpace(Head(s)) THEN LStrip(Tail(s)) ELSE s

RECURSIVE RStrip(_)
RStrip(s) ==
    IF s # <<>> /\ IsSpace(s[Len(s)]) THEN RStrip(SubSeq(s, 1, Len(s) - 1)) ELSE s

Strip(s) == RStrip(LStrip(s))

\* s[:n] for n >= 0
PyPrefix(s, n) == IF n >= Len(s) THEN s ELSE SubSeq(s, 1, n)

\* s[-n:] for n >= 0; Python reads -0 as 0, so s[-0:] is the whole of s
PyLastN(s, n) ==
    IF n = 0 \/ n >= Len(s) THEN s ELSE SubSeq(s, Len(s) - n + 1, Len(s))

\* x or default, for a text x
PyOr(x, default) == IF x = <<>> THEN default ELSE x

\* a < b in Python's order on str (code point by code point, a prefix first)
RECURSIVE StrLess(_, _)
StrLess(a, b) ==
    IF b = <<>> THEN FALSE
    ELSE IF a = <<>> THEN TRUE
    ELSE IF Head(a) # Head(b) THEN Head(a) < Head(b)
    ELSE StrLess(Tail(a), Tail(b))

\* ------------------------------------------------------------ pure functions

\* h.update(title) ; h.update(link): the digest of the two byte strings in a row
hash_item(title, link) == PyOr(title, <<>>) \o PyOr(link, <<>>)

\* re.sub("<[^<]+?>", "", text): at a "<", the shortest run of one or more
\* characters other than "<" that is followed by ">" is removed with both brackets
TagEnd(text, i) ==
    LET ends == {j \in (i + 2)..Len(text) :
                    /\ text[j] = 62
                    /\ \A k \in (i + 1)..(j - 1) : text[k] # 60}
    IN IF text[i] = 60 /\ ends # {}
       THEN CHOOSE j \in ends : \A k \in ends : j <= k
       ELSE 0

RECURSIVE StripTagsFrom(_, _)
StripTagsFrom(text, i) ==
    IF i > Len(text) THEN <<>>
    ELSE IF TagEnd(text, i) # 0 THEN StripTagsFrom(text, TagEnd(text, i) + 1)
    ELSE <<text[i]>> \o StripTagsFrom(text, i + 1)

StripTags(text) == StripTagsFrom(text, 1)

\* html.unescape, on the entities &lt; &gt; &amp;
EntityAt(text, i) ==
    IF i + 3 <= Len(text) /\ SubSeq(text, i, i + 3) = <<38, 108, 116, 59>> THEN <<60, 4>>
    ELSE IF i + 3 <= Len(text) /\ SubSeq(text, i, i + 3) = <<38, 103, 116, 59>> THEN <<62, 4>>
    ELSE IF i + 4 <= Len(text) /\ SubSeq(text, i, i + 4) = <<38, 97, 109, 112, 59>> THEN <<38, 5>>
    ELSE <<0, 0>>

RECURSIVE UnescapeFrom(_, _)
UnescapeFrom(text, i) ==
    IF i > Len(text) THEN <<>>
    ELSE IF EntityAt(text, i)[2] # 0
         THEN <<EntityAt(text, i)[1]>> \o UnescapeFrom(text, i + EntityAt(text, i)[2])
    ELSE <<text[i]>> \o UnescapeFrom(text, i + 1)

unescape(text) == UnescapeFrom(text, 1)

SummarizeCutAtBudget(text, max_chars) ==
    IF text = <<>> THEN <<>>
    ELSE LET txt == Strip(unescape(StripTags(text)))
         IN IF Len(txt) <= max_chars THEN txt
            ELSE RStrip(PyPrefix(txt, max_chars)) \o <<Ellipsis>>

summarize(text, max_chars) ==
    IF text = <<>> THEN <<>>
    ELSE LET txt == Strip(unescape(StripTags(text)))
         IN IF Len(txt) <= max_chars THEN txt
            ELSE RStrip(PyPrefix(txt, max_chars - 1)) \o <<Ellipsis>>

\* k.search(hay) for a literal pattern compiled with re.I
Search(k, hay) ==
    \E i \in 0..(Len(hay) - Len(k)) :
        \A j \in 1..Len(k) : Lower(hay[i + j]) = Lower(k[j])

matches_keywords(title, summary, kw_regexes) ==
    LET hay == PyOr(title, <<>>) \o <<10>> \o PyOr(summary, <<>>)
    IN \E n \in 1..Len(kw_regexes) : Search(kw_regexes[n], hay)

\* ------------------------------------------------------------ render_digest

\* a line of the document; the fields a kind does not use stay at their defaults
Ln ==
    [kind |-> "", date |-> 0, source |-> <<>>, n |-> 0, m |-> 0, plural |-> FALSE,
     title |-> <<>>, link |-> <<>>, published |-> <<>>, summary |-> <<>>]

Untitled == <<40, 117, 110, 116, 105, 116, 108, 101, 100, 41>>

\* the keys of by_source, in the order setdefault first saw them
RECURSIVE SourceKeys(_)
SourceKeys(items) ==
    IF items = <<>> THEN <<>>
    ELSE LET front == SourceKeys(SubSeq(items, 1, Len(items) - 1))
             src == items[Len(items)].source
         IN IF src \in Range(front) THEN front ELSE Append(front, src)

\* by_source[source]: the items of the source, in the order they were appended
BySource(items, source) == SelectSeq(items, LAMBDA it : it.source = source)

\* sorted(by_source.items()): the keys are distinct, so the key decides the order
RECURSIVE InsertSorted(_, _)
InsertSorted(sorted, key) ==
    IF sorted = <<>> THEN <<key>>
    ELSE IF StrLess(key, Head(sorted)) THEN <<key>> \o sorted
    ELSE <<Head(sorted)>> \o InsertSorted(Tail(sorted), key)

RECURSIVE SortKeys(_)
SortKeys(keys) ==
    IF keys = <<>> THEN <<>>
    ELSE InsertSorted(SortKeys(SubSeq(keys, 1, Len(keys) - 1)), keys[Len(keys)])

RenderOrderAsCollected(items) == SourceKeys(items)

RenderOrder(items) == SortKeys(SourceKeys(items))

CountLineAlwaysPlural(items, source) ==
    [Ln EXCEPT !.kind = "count", !.source = source,
               !.n = Len(BySource(items, source)), !.plural = TRUE]

\* lines 70-73: "- {source}: {count} item{'s' if count != 1 else ''}"
CountLine(items, source) ==
    [Ln EXCEPT !.kind = "count", !.source = source,
               !.n = Len(BySource(items, source)),
               !.plural = (Len(BySource(items, source)) # 1)]

ItemLine(it) ==
    [Ln EXCEPT !.kind = "item",
               !.title = PyOr(it.title, Untitled), !.link = PyOr(it.link, <<>>),
               !.published = it.published, !.summary = PyOr(it.summary, <<>>)]

Section(items, source) ==
    <<[Ln EXCEPT !.kind = "section", !.source = source]>>
    \o [i \in 1..Len(BySource(items, source)) |-> ItemLine(BySource(items, source)[i])]

RECURSIVE Sections(_, _)
Sections(items, order) ==
    IF order = <<>> THEN <<>>
    ELSE Section(items, Head(order)) \o Sections(items, Tail(order))

render_digest(date_str, items) ==
    IF items = <<>>
    THEN <<[Ln EXCEPT !.kind = "title", !.date = date_str], [Ln EXCEPT !.kind = "none"]>>
    ELSE <<[Ln EXCEPT !.kind = "title", !.date = date_str],
           [Ln EXCEPT !.kind = "total", !.n = Len(items), !.m = Len(SourceKeys(items))],
           [Ln EXCEPT !.kind = "summary"]>>
         \o [i \in 1..Len(RenderOrder(items)) |-> CountLine(items, RenderOrder(items)[i])]
         \o <<[Ln EXCEPT !.kind = "blank"]>>
         \o Sections(items, RenderOrder(items))

\* ------------------------------------------------------------------ inputs

Dates == {1, 2}
Urls == {1, 2}

\* raw feed entries: "has" names the attributes the entry carries
NoEntry ==
    [has |-> {}, title |-> <<>>, link |-> <<>>, summary |-> <<>>,
     description |-> <<>>, published |-> <<>>, updated |-> <<>>]
\* title "a", link "b", summary "<i>x "
E1 ==
    [NoEntry EXCEPT !.has = {"title", "link", "summary", "published"},
                    !.title = <<97>>, !.link = <<98>>,
                    !.summary = <<60, 105, 62, 120, 32>>, !.published = <<49>>]
\* title "ab", no link, description "y"
E2 ==
    [NoEntry EXCEPT !.has = {"title", "description", "updated"},
                    !.title = <<97, 98>>, !.description = <<121>>, !.updated = <<50>>]
\* title "B", link "b"
E3 ==
    [NoEntry EXCEPT !.has = {"title", "link"}, !.title = <<66>>, !.link = <<98>>]
\* what a feed URL may serve
FeedEntries(url) == IF url = 1 THEN {E1, E3} ELSE {E2}

\* sources.yaml: feeds "B" and "A", in that order
FeedsCfg == <<[name |-> <<66>>, url |-> 1], [name |-> <<65>>, url |-> 2]>>

\* the keyword lists sources.yaml may hold: none, "a", or "a" and "b"
KeywordLists == {<<>>, <<<<97>>>>, <<<<97>>, <<98>>>>}

\* fingerprints a ledger may hold before the first run: "z" and "ab"
InitFps == {<<122>>, <<97, 98>>}

NoFile ==
    [kind |-> "absent", has_hashes |-> FALSE, hashes |-> <<>>,
     has_max_len |-> FALSE, max_len |-> 0]

Json(hashes, max_len) ==
    [kind |-> "json", has_hashes |-> TRUE, hashes |-> hashes,
     has_max_len |-> TRUE, max_len |-> max_len]

\* line 113 lets no fingerprint into the ledger twice
NoRepeats(hashes) ==
    \A i, j \in 1..Len(hashes) : hashes[i] = hashes[j] => i = j

InitStores ==
    {NoFile, [NoFile EXCEPT !.kind = "unparseable"]}
    \cup {[Json(<<>>, 1) EXCEPT !.has_hashes = FALSE],
          [Json(<<<<122>>>>, 0) EXCEPT !.has_max_len = FALSE]}
    \cup {Json(h, n) : h \in {x \in SeqsUpTo(InitFps, MaxCap) : NoRepeats(x)},
                        n \in 1..MaxCap}

\* ------------------------------------------------------------------- state

VARIABLES
    cfg,        \* scripts/sources.yaml
    web,        \* what each feed URL serves
    down,       \* the feed URLs that cannot be fetched or parsed
    clock,      \* the date
    fs,         \* digest/, data/, data/seen.json, digest/<date>.md, README.md
    pc,         \* where main() is
    today, feeds, kw, seen, collected, fi, d, ei,   \* the locals of main()
    err,        \* the exception main() ended with
    runs,       \* invocations so far
    fs0,        \* fs when the invocation began
    fetched,    \* the entries each source of this invocation returned
    last,       \* the latest entry the loop handled, and at which gate it ended
    filtered,   \* entries the keyword gate has rejected
    pre,        \* seen["hashes"] when the entry loop ended
    prev,       \* the latest invocation that completed, while the inputs stay as it saw them
    rep,        \* prev as this invocation found it: what it repeats, if anything
    arg, out, call   \* a pure function called on its own

mainVars ==
    <<cfg, web, down, clock, fs, pc, today, feeds, kw, seen, collected, fi, d, ei,
      err, runs, fs0, fetched, last, filtered, pre, prev, rep>>
fnVars == <<arg, out, call>>
vars == <<mainVars, fnVars>>

NoPrev == [done |-> FALSE, evicted |-> FALSE]

FnOff == arg = <<>> /\ out = <<>> /\ call = "off"

NoLast == [gate |-> "none", entry |-> NoEntry]

NoSeen == Json(<<>>, 0)

MainInit ==
    /\ cfg \in {[ok |-> FALSE, feeds |-> <<>>, keywords |-> <<>>]}
               \cup {[ok |-> TRUE, feeds |-> FeedsCfg, keywords |-> k] : k \in KeywordLists}
    /\ web \in {[u \in Urls |-> IF u = 1 THEN a ELSE b] :
                    a \in SeqsUpTo(FeedEntries(1), MaxEntries),
                    b \in SeqsUpTo(FeedEntries(2), MaxEntries)}
    /\ down \in {x \in SUBSET Urls : \A u \in x : web[u] = <<>>}
    /\ clock = 1
    \* lines 100 and 132: the run that saves a whole seen.json has made digest/
    /\ \E store \in InitStores, dirs \in BOOLEAN :
          /\ dirs \/ ~(store.has_hashes /\ store.has_max_len)
          /\ fs = [digest_dir |-> dirs,
                   data_dir |-> (dirs \/ store.kind # "absent"),
                   seen_file |-> store,
                   digests |-> [day \in Dates |-> <<>>],
                   readme |-> <<>>]
    /\ pc = "idle"
    /\ today = 0 /\ feeds = <<>> /\ kw = <<>> /\ seen = NoSeen /\ collected = <<>>
    /\ fi = 0 /\ d = <<>> /\ ei = 0
    /\ err = "none"
    /\ runs = 0
    /\ fs0 = fs
    /\ fetched = <<>>
    /\ last = NoLast
    /\ filtered = {}
    /\ pre = <<>>
    /\ prev = NoPrev
    /\ rep = NoPrev

Init == MainInit /\ FnOff

\* ----------------------------------------------------------------- main()

\* getattr(e, name, "")
getattr(e, name) == IF name \in e.has THEN e[name] ELSE <<>>

\* lines 108-111: the fields of the entry as the loop reads them
Title(e) == getattr(e, "title")
Link(e) == getattr(e, "link")
Summary(e) == PyOr(getattr(e, "summary"), getattr(e, "description"))
Published(e) == PyOr(getattr(e, "published"), getattr(e, "updated"))

InSavedLedger(item_hash, hashes) == item_hash \in Range(fs.seen_file.hashes)

InLedgerNever(item_hash, hashes) == FALSE

\* line 113: item_hash in seen["hashes"]
InLedger(item_hash, hashes) == item_hash \in Range(hashes)

PassesAlways(title, summary, kw_regexes) == TRUE

PassesOnlyOnMatch(title, summary, kw_regexes) ==
    matches_keywords(title, summary, kw_regexes)

\* line 115: the keyword gate lets the entry through
PassesFilter(title, summary, kw_regexes) ==
    ~(kw_regexes # <<>> /\ ~matches_keywords(title, summary, kw_regexes))

\* lines 117-123: the record appended to collected
Item(source, e) ==
    [source |-> source, title |-> Title(e), link |-> Link(e),
     summary |-> summarize(Summary(e), SummaryBudget), published |-> Published(e)]

CollectFront(items, item) == <<item>> \o items

Collect(items, item) == Append(items, item)

InsertNothing(hashes, item_hash) == hashes

InsertFront(hashes, item_hash) == <<item_hash>> \o hashes

InsertThenCap(hashes, item_hash) ==
    LET longer == Append(hashes, item_hash)
    IN IF Len(longer) > seen.max_len THEN PyLastN(longer, seen.max_len) ELSE longer

\* line 124
Insert(hashes, item_hash) == Append(hashes, item_hash)

CapOffByOne(hashes, max_len) ==
    IF Len(hashes) > max_len THEN PyLastN(hashes, max_len + 1) ELSE hashes

CapKeepsOldest(hashes, max_len) ==
    IF Len(hashes) > max_len THEN PyPrefix(hashes, max_len) ELSE hashes

\* lines 127-128
Cap(hashes, max_len) ==
    IF Len(hashes) > max_len THEN PyLastN(hashes, max_len) ELSE hashes

\* an exception leaves main()
Raise(e) == pc' = "failed" /\ err' = e /\ prev' = NoPrev

\* lines 99-101: the date, digest/ made, the configuration loaded
Start ==
    /\ pc \in {"idle", "done", "failed", "killed"}
    /\ runs < MaxRuns
    /\ runs' = runs + 1
    /\ today' = clock
    /\ fs0' = fs
    /\ fs' = [fs EXCEPT !.digest_dir = TRUE]
    /\ IF cfg.ok
       THEN /\ feeds' = cfg.feeds /\ kw' = cfg.keywords
            /\ pc' = "load_seen" /\ err' = "none" /\ prev' = prev
       ELSE /\ feeds' = <<>> /\ kw' = <<>>
            /\ Raise("ConfigUnavailable")
    /\ rep' = prev
    /\ seen' = NoSeen /\ collected' = <<>> /\ fi' = 0 /\ d' = <<>> /\ ei' = 0
    /\ fetched' = <<>> /\ last' = NoLast /\ pre' = <<>>
    /\ UNCHANGED <<cfg, web, down, clock, filtered, fnVars>>

LoadSeenReset ==
    /\ pc = "load_seen"
    /\ fs' = [fs EXCEPT !.data_dir = TRUE,
                        !.seen_file = IF @.kind = "unparseable"
                                      THEN Json(<<>>, DefaultMaxLen) ELSE @]
    /\ seen' = IF fs.seen_file.kind = "json" THEN fs.seen_file
               ELSE Json(<<>>, DefaultMaxLen)
    /\ fi' = 1
    /\ pc' = "feeds"
    /\ UNCHANGED <<cfg, web, down, clock, today, feeds, kw, collected, d, ei, runs, fs0,
                   fetched, last, filtered, pre, rep, err, prev, fnVars>>

\* lines 102-104: load_seen(), and the empty collected list
LoadSeen ==
    /\ pc = "load_seen"
    /\ fs' = [fs EXCEPT !.data_dir = TRUE]
    /\ IF fs.seen_file.kind = "unparseable"
       THEN Raise("CorruptLedger") /\ UNCHANGED <<seen, fi>>
       ELSE /\ seen' = IF fs.seen_file.kind = "absent"
                       THEN Json(<<>>, DefaultMaxLen)
                       ELSE fs.seen_file
            /\ fi' = 1
            /\ pc' = "feeds"
            /\ UNCHANGED <<err, prev>>
    /\ UNCHANGED <<cfg, web, down, clock, today, feeds, kw, collected, d, ei, runs, fs0,
                   fetched, last, filtered, pre, rep, fnVars>>

\* line 106: feedparser.parse returns the entries the URL serves
FetchOk ==
    /\ pc = "feeds" /\ fi <= Len(feeds)
    /\ feeds[fi].url \notin down
    /\ d' = web[feeds[fi].url]
    /\ fetched' = Append(fetched, d')
    /\ ei' = 1
    /\ pc' = "entries"
    /\ UNCHANGED <<cfg, web, down, clock, fs, today, feeds, kw, seen, collected, fi, err,
                   runs, fs0, last, filtered, pre, prev, rep, fnVars>>

\* line 106: the feed is down and feedparser.parse returns a result without entries
FetchBozo ==
    /\ pc = "feeds" /\ fi <= Len(feeds)
    /\ feeds[fi].url \in down
    /\ d' = <<>>
    /\ fetched' = Append(fetched, d')
    /\ ei' = 1
    /\ pc' = "entries"
    /\ UNCHANGED <<cfg, web, down, clock, fs, today, feeds, kw, seen, collected, fi, err,
                   runs, fs0, last, filtered, pre, prev, rep, fnVars>>

\* line 106: the feed is down and feedparser.parse raises; nothing catches it
FetchRaise ==
    /\ pc = "feeds" /\ fi <= Len(feeds)
    /\ feeds[fi].url \in down
    /\ Raise("FetchFailure")
    /\ UNCHANGED <<cfg, web, down, clock, fs, today, feeds, kw, seen, collected, fi, d, ei,
                   runs, fs0, fetched, last, filtered, pre, rep, fnVars>>

\* line 107: the entries of the source are exhausted
NextSource ==
    /\ pc = "entries" /\ ei > Len(d)
    /\ fi' = fi + 1
    /\ pc' = "feeds"
    /\ UNCHANGED <<cfg, web, down, clock, fs, today, feeds, kw, seen, collected, d, ei, err,
                   runs, fs0, fetched, last, filtered, pre, prev, rep, fnVars>>

\* lines 107-124: one entry through the dedup gate and the keyword gate
ProcessEntry ==
    /\ pc = "entries" /\ ei <= Len(d)
    /\ LET e == d[ei]
           item_hash == hash_item(Title(e), Link(e))
       IN IF ~seen.has_hashes
          THEN /\ Raise("CorruptLedger")
               /\ UNCHANGED <<seen, collected, ei, last, filtered>>
          ELSE IF InLedger(item_hash, seen.hashes)
          THEN /\ last' = [gate |-> "dup", entry |-> e]
               /\ ei' = ei + 1
               /\ UNCHANGED <<pc, err, prev, seen, collected, filtered>>
          ELSE IF ~PassesFilter(Title(e), Summary(e), kw)
          THEN /\ last' = [gate |-> "filtered", entry |-> e]
               /\ filtered' = filtered \cup {e}
               /\ ei' = ei + 1
               /\ UNCHANGED <<pc, err, prev, seen, collected>>
          ELSE /\ collected' = Collect(collected, Item(feeds[fi].name, e))
               /\ seen' = [seen EXCEPT !.hashes = Insert(seen.hashes, item_hash)]
               /\ last' = [gate |-> "collected", entry |-> e]
               /\ ei' = ei + 1
               /\ UNCHANGED <<pc, err, prev, filtered>>
    /\ UNCHANGED <<cfg, web, down, clock, fs, today, feeds, kw, fi, d, runs, fs0, fetched,
                   pre, rep, fnVars>>

\* line 105: the sources are exhausted
EndLoop ==
    /\ pc = "feeds" /\ fi > Len(feeds)
    /\ pc' = "cap"
    /\ UNCHANGED <<cfg, web, down, clock, fs, today, feeds, kw, seen, collected, fi, d, ei,
                   err, runs, fs0, fetched, last, filtered, pre, prev, rep, fnVars>>

\* lines 126-128: the seen list capped
CapSeen ==
    /\ pc = "cap"
    /\ IF ~seen.has_hashes \/ ~seen.has_max_len
       THEN Raise("CorruptLedger") /\ UNCHANGED <<seen, pre>>
       ELSE /\ pre' = seen.hashes
            /\ seen' = [seen EXCEPT !.hashes = Cap(seen.hashes, seen.max_len)]
            /\ pc' = "write_digest"
            /\ UNCHANGED <<err, prev>>
    /\ UNCHANGED <<cfg, web, down, clock, fs, today, feeds, kw, collected, fi, d, ei, runs,
                   fs0, fetched, last, filtered, rep, fnVars>>

WriteDigestSkipped ==
    /\ pc = "write_digest"
    /\ pc' = "save_seen"
    /\ UNCHANGED <<cfg, web, down, clock, fs, today, feeds, kw, seen, collected, fi, d, ei,
                   err, runs, fs0, fetched, last, filtered, pre, prev, rep, fnVars>>

\* lines 130-131: the digest rendered and written
WriteDigest ==
    /\ pc = "write_digest"
    /\ fs' = [fs EXCEPT !.digests[today] = render_digest(today, collected)]
    /\ pc' = "save_seen"
    /\ UNCHANGED <<cfg, web, down, clock, today, feeds, kw, seen, collected, fi, d, ei, err,
                   runs, fs0, fetched, last, filtered, pre, prev, rep, fnVars>>

SaveSeenResetsMaxLen ==
    /\ pc = "save_seen"
    /\ fs' = [fs EXCEPT !.seen_file = Json(seen.hashes, DefaultMaxLen)]
    /\ pc' = "update_readme"
    /\ UNCHANGED <<cfg, web, down, clock, today, feeds, kw, seen, collected, fi, d, ei, err,
                   runs, fs0, fetched, last, filtered, pre, prev, rep, fnVars>>

\* line 132: save_seen(seen)
SaveSeen ==
    /\ pc = "save_seen"
    /\ fs' = [fs EXCEPT !.seen_file = Json(seen.hashes, seen.max_len)]
    /\ pc' = "update_readme"
    /\ UNCHANGED <<cfg, web, down, clock, today, feeds, kw, seen, collected, fi, d, ei, err,
                   runs, fs0, fetched, last, filtered, pre, prev, rep, fnVars>>

UpdateReadmeAppends(date_str) ==
    Append(fs.readme, [label |-> date_str, target |-> date_str])

\* the README: its links, each a label and a target date
update_readme(date_str) == <<[label |-> date_str, target |-> date_str]>>

\* lines 133-134: update_readme(today), and the closing print
UpdateReadme ==
    /\ pc = "update_readme"
    /\ fs' = [fs EXCEPT !.readme = update_readme(today)]
    /\ pc' = "done"
    /\ prev' = [done |-> TRUE, evicted |-> Len(pre) > seen.max_len]
    /\ UNCHANGED <<cfg, web, down, clock, today, feeds, kw, seen, collected, fi, d, ei, err,
                   runs, fs0, fetched, last, filtered, pre, rep, fnVars>>

\* the process is stopped between two of the writes of lines 131-133; the next
\* invocation, if any, is a retry under the same sources.yaml on the same day
Interrupt ==
    /\ pc \in {"save_seen", "update_readme"}
    /\ pc' = "killed"
    /\ err' = "Interrupted"
    /\ prev' = NoPrev
    /\ UNCHANGED <<cfg, web, down, clock, fs, today, feeds, kw, seen, collected, fi, d, ei,
                   runs, fs0, fetched, last, filtered, pre, rep, fnVars>>

\* between invocations: the keyword list of sources.yaml is edited
EditConfig ==
    /\ pc \in {"done", "failed"} /\ runs < MaxRuns
    /\ cfg.ok
    /\ \E k \in KeywordLists \ {cfg.keywords} : cfg' = [cfg EXCEPT !.keywords = k]
    /\ prev' = NoPrev
    /\ UNCHANGED <<web, down, clock, fs, pc, today, feeds, kw, seen, collected, fi, d, ei,
                   err, runs, fs0, fetched, last, filtered, pre, rep, fnVars>>

\* between invocations: the day ends
Tick ==
    /\ pc \in {"done", "failed"} /\ runs < MaxRuns
    /\ clock + 1 \in Dates
    /\ clock' = clock + 1
    /\ UNCHANGED <<cfg, web, down, fs, pc, today, feeds, kw, seen, collected, fi, d, ei,
                   err, runs, fs0, fetched, last, filtered, pre, prev, rep, fnVars>>

Next ==
    \/ Start
    \/ LoadSeen
    \/ FetchOk
    \/ FetchBozo
    \/ FetchRaise
    \/ NextSource
    \/ ProcessEntry
    \/ EndLoop
    \/ CapSeen
    \/ WriteDigest
    \/ SaveSeen
    \/ UpdateReadme
    \/ Interrupt
    \/ EditConfig
    \/ Tick

Spec == Init /\ [][Next]_vars

\* ------------------------------------------------- pure functions on their own

MainOff ==
    /\ cfg = [ok |-> FALSE, feeds |-> <<>>, keywords |-> <<>>]
    /\ web = [u \in Urls |-> <<>>]
    /\ down = {}
    /\ clock = 1
    /\ fs = [digest_dir |-> FALSE, data_dir |-> FALSE, seen_file |-> NoFile,
             digests |-> [day \in Dates |-> <<>>], readme |-> <<>>]
    /\ pc = "off"
    /\ today = 0 /\ feeds = <<>> /\ kw = <<>> /\ seen = NoSeen /\ collected = <<>>
    /\ fi = 0 /\ d = <<>> /\ ei = 0
    /\ err = "none"
    /\ runs = 0
    /\ fs0 = fs
    /\ fetched = <<>>
    /\ last = NoLast
    /\ filtered = {}
    /\ pre = <<>>
    /\ prev = NoPrev
    /\ rep = NoPrev

\* the titles and links hash_item is called with: "", "a", "ab" and "", "b", "c"
HashTitles == {<<>>, <<97>>, <<97, 98>>}
HashLinks == {<<>>, <<98>>, <<99>>}

InitHash ==
    /\ MainOff
    /\ arg \in [t1 : HashTitles, l1 : HashLinks, t2 : HashTitles, l2 : HashLinks]
    /\ out = <<>>
    /\ call = "ready"

CallHashItem ==
    /\ call = "ready"
    /\ out' = <<hash_item(arg.t1, arg.l1), hash_item(arg.t2, arg.l2)>>
    /\ call' = "returned"
    /\ UNCHANGED <<arg, mainVars>>

NextHash == CallHashItem

SpecHash == InitHash /\ [][NextHash]_vars

\* the items render_digest is called with: sources "B", "A", "AB"; title "" or "a"
RenderItems ==
    {[source |-> s, title |-> t, link |-> t, summary |-> <<>>, published |-> <<>>] :
        s \in {<<66>>, <<65>>, <<65, 66>>}, t \in {<<>>, <<97>>}}

InitRender ==
    /\ MainOff
    /\ arg \in SeqsUpTo(RenderItems, MaxItems)
    /\ out = <<>>
    /\ call = "ready"

CallRender ==
    /\ call = "ready"
    /\ out' = render_digest(1, arg)
    /\ call' = "returned"
    /\ UNCHANGED <<arg, mainVars>>

NextRender == CallRender

SpecRender == InitRender /\ [][NextRender]_vars

\* the summaries summarize is called with: every text of "a", " ", "<", ">" and
\* the ellipsis up to MaxText long, and "&lt;a", "a&amp;b", " <b>a  a</b> "
SummaryTexts ==
    SeqsUpTo({97, 32, 60, 62, Ellipsis}, MaxText)
    \cup {<<38, 108, 116, 59, 97>>,
          <<97, 38, 97, 109, 112, 59, 98>>,
          <<32, 60, 98, 62, 97, 32, 32, 97, 60, 47, 98, 62, 32>>}

InitSummarize ==
    /\ MainOff
    /\ arg \in [text : SummaryTexts, max_chars : 1..MaxBudget]
    /\ out = <<>>
    /\ call = "ready"

CallSummarize ==
    /\ call = "ready"
    /\ out' = summarize(arg.text, arg.max_chars)
    /\ call' = "returned"
    /\ UNCHANGED <<arg, mainVars>>

NextSummarize == CallSummarize

SpecSummarize == InitSummarize /\ [][NextSummarize]_vars

\* ------------------------------------------------------------------ claims

InRun == pc \in {"load_seen", "feeds", "entries", "cap", "write_digest",
                 "save_seen", "update_readme", "done"}

Capped == pc \in {"write_digest", "save_seen", "update_readme", "done"}

HasItems(doc) == \E i \in 1..Len(doc) : doc[i].kind = "item"

\* C1 as stated: an invocation that repeats a completed one (same sources.yaml,
\* same feeds, the ledger as that one saved it) collects nothing, whatever the
\* ledger and max_len were.
C1_RepeatCollectsNothing == (InRun /\ rep.done) => collected = <<>>

\* C1 amended: an invocation that repeats a completed one whose cap dropped
\* nothing (its seen list held at most max_len hashes when its entry loop ended)
\* collects nothing.
C1_RepeatAfterNoEviction == (InRun /\ rep.done /\ ~rep.evicted) => collected = <<>>

\* the first invocation collected items, its repeat met them at the dedup gate
\* and finished with none collected
C1_Witness ==
    /\ pc = "done" /\ rep.done /\ ~rep.evicted
    /\ last.gate = "dup"
    /\ \E day \in Dates : HasItems(fs0.digests[day])
    /\ collected = <<>>

\* C2: once an invocation has saved seen.json, its hashes are at most max_len
\* long, also when the loaded list was over max_len and nothing was collected.
C2_CapacityBound ==
    pc \in {"update_readme", "done"} =>
        Len(fs.seen_file.hashes) <= fs.seen_file.max_len

\* seen.json held more hashes than max_len, the invocation collected nothing and
\* saved it
C2_Witness ==
    /\ pc = "done" /\ collected = <<>>
    /\ fs0.seen_file.has_hashes /\ fs0.seen_file.has_max_len
    /\ Len(fs0.seen_file.hashes) > fs0.seen_file.max_len

\* C3: after the cap, a list that was longer than max_len is its last max_len
\* hashes in their order, and a list that was not is as it was.
C3_FifoEviction ==
    Capped =>
        IF Len(pre) > seen.max_len
        THEN /\ Len(seen.hashes) = seen.max_len
             /\ \A i \in 1..seen.max_len :
                    seen.hashes[i] = pre[Len(pre) - seen.max_len + i]
        ELSE seen.hashes = pre

\* the cap dropped the oldest hash and kept two different ones
C3_Witness ==
    /\ pc = "write_digest"
    /\ Len(pre) > seen.max_len
    /\ seen.max_len >= 2
    /\ seen.hashes[1] # seen.hashes[2]
    /\ pre[1] # seen.hashes[1]

\* the entry the loop is about to handle
AtEntry == pc = "entries" /\ ei <= Len(d) /\ seen.has_hashes
Fingerprint(e) == hash_item(Title(e), Link(e))
Known(h, hashes) == \E i \in 1..Len(hashes) : hashes[i] = h

\* C4: under a non-empty keyword list an entry that no keyword matches is not
\* collected and adds no hash; an entry that a keyword matches and whose hash the
\* ledger does not hold is collected, whatever earlier invocations did with it.
C4_FilterGate ==
    [][AtEntry /\ kw # <<>> =>
         IF ~matches_keywords(Title(d[ei]), Summary(d[ei]), kw)
         THEN collected' = collected /\ seen'.hashes = seen.hashes
         ELSE (~Known(Fingerprint(d[ei]), seen.hashes) =>
                 /\ collected' = Append(collected, Item(feeds[fi].name, d[ei]))
                 /\ seen'.hashes = Append(seen.hashes, Fingerprint(d[ei])))]_vars

\* an entry the keyword gate rejected in an earlier invocation is collected now,
\* under a keyword list that matches it
C4_Witness ==
    /\ last.gate = "collected" /\ last.entry \in filtered
    /\ kw # <<>>
    /\ collected # <<>>
    /\ collected[Len(collected)].title = Title(last.entry)

\* C5: an entry whose hash the ledger holds when the loop reaches it is not
\* collected and adds no hash, under every keyword list.
C5_DedupGate ==
    [][AtEntry /\ Known(Fingerprint(d[ei]), seen.hashes) =>
         collected' = collected /\ seen' = seen]_vars

\* the loop skipped an entry whose hash the same invocation had inserted, under a
\* keyword list that matches the entry
C5_Witness ==
    /\ last.gate = "dup"
    /\ ~Known(Fingerprint(last.entry), fs0.seen_file.hashes)
    /\ kw # <<>>
    /\ matches_keywords(Title(last.entry), Summary(last.entry), kw)

\* C6: a source whose feed cannot be fetched or parsed never ends the invocation.
C6_FailingSourceNeverAborts == ~(pc = "failed" /\ err = "FetchFailure")

FatalAtLoad == pc = "failed" /\ err \in {"ConfigUnavailable", "CorruptLedger"}

\* C7 as stated: an invocation that fails on sources.yaml or on seen.json leaves
\* the filesystem exactly as it found it.
C7_NoFilesystemChange == FatalAtLoad => fs = fs0

\* C7 amended: an invocation that fails on sources.yaml or on seen.json has only
\* made digest/ (if it was missing); no failed invocation leaves a digest, a
\* seen.json or a README written; and an invocation that got as far as writing
\* had loaded sources.yaml and a seen.json with both fields (or none at all).
C7_NoArtifactWritten ==
    /\ (FatalAtLoad => fs = [fs0 EXCEPT !.digest_dir = TRUE])
    /\ (pc = "failed" =>
          /\ fs.digests = fs0.digests
          /\ fs.seen_file = fs0.seen_file
          /\ fs.readme = fs0.readme)
    /\ Capped =>
          /\ cfg.ok
          /\ fs0.seen_file.kind # "unparseable"
          /\ (fs0.seen_file.kind = "json" =>
                fs0.seen_file.has_hashes /\ fs0.seen_file.has_max_len)

\* seen.json lacks max_len: the invocation collected items, failed at the cap and
\* left only the new digest/ behind
C7_Witness ==
    /\ FatalAtLoad /\ err = "CorruptLedger"
    /\ collected # <<>>
    /\ ~fs0.digest_dir /\ fs.digest_dir

\* C8: two (title, link) pairs that differ in the title or in the link get
\* different fingerprints.
C8_DistinctPairsDistinctHashes ==
    (call = "returned" /\ (arg.t1 # arg.t2 \/ arg.l1 # arg.l2)) => out[1] # out[2]

\* the entries of the sources the invocation has fetched, as items, in source
\* order and feed order
RECURSIVE Enumerated(_)
Enumerated(n) ==
    IF n = 0 THEN <<>>
    ELSE Enumerated(n - 1)
         \o [j \in 1..Len(fetched[n]) |-> Item(feeds[n].name, fetched[n][j])]

RECURSIVE IsSubseq(_, _)
IsSubseq(a, b) ==
    IF a = <<>> THEN TRUE
    ELSE IF b = <<>> THEN FALSE
    ELSE IF Head(a) = Head(b) THEN IsSubseq(Tail(a), Tail(b))
    ELSE IsSubseq(a, Tail(b))

\* C9: collected is a subsequence of the entries enumerated source by source, and
\* within a source in feed order.
C9_CollectionOrder == InRun => IsSubseq(collected, Enumerated(Len(fetched)))

\* items of both sources were collected and an entry between them was skipped
C9_Witness ==
    /\ pc = "done"
    /\ Len(collected) >= 2
    /\ collected[1].source # collected[Len(collected)].source
    /\ Len(collected) < Len(Enumerated(Len(fetched)))

\* a < b letter by letter, a proper prefix first
LexLess(a, b) ==
    \E k \in 1..(Len(b)) :
        /\ k <= Len(a) + 1
        /\ \A i \in 1..(k - 1) : a[i] = b[i]
        /\ k = Len(a) + 1 \/ a[k] < b[k]

Positions(doc, kind) == {i \in 1..Len(doc) : doc[i].kind = kind}

\* the lines of a section: from its header to the next header or the end
BlockEnd(doc, i) ==
    IF \E j \in Positions(doc, "section") : j > i
    THEN (CHOOSE j \in Positions(doc, "section") :
              j > i /\ \A k \in Positions(doc, "section") : k > i => j <= k) - 1
    ELSE Len(doc)

Shown(it) ==
    [Ln EXCEPT !.kind = "item", !.title = IF it.title = <<>> THEN Untitled ELSE it.title,
               !.link = it.link, !.published = it.published, !.summary = it.summary]

OfSource(items, source) == SelectSeq(items, LAMBDA it : it.source = source)

InLexOrder(doc, kind, items) ==
    /\ \A i, j \in Positions(doc, kind) :
          i < j => LexLess(doc[i].source, doc[j].source)
    /\ {doc[i].source : i \in Positions(doc, kind)} = {items[i].source : i \in 1..Len(items)}

\* C10: for a non-empty list, the count lines and the sections are in
\* lexicographic order of source name, one per source of the list, and a section
\* holds the items of its source in the order of the list.
C10_RenderOrder ==
    (call = "returned" /\ arg # <<>>) =>
        /\ InLexOrder(out, "count", arg)
        /\ InLexOrder(out, "section", arg)
        /\ \A i \in Positions(out, "count"), j \in Positions(out, "section") : i < j
        /\ \A i \in Positions(out, "section") :
              SubSeq(out, i + 1, BlockEnd(out, i))
                  = [k \in 1..Len(OfSource(arg, out[i].source)) |->
                        Shown(OfSource(arg, out[i].source)[k])]
        /\ \A i \in Positions(out, "item") : \E j \in Positions(out, "section") : j < i

\* items of "B", "A", "B" in that order: the sections are re-sorted, and the two
\* items of "B" keep their order
C10_Witness ==
    /\ call = "returned"
    /\ Len(arg) = 3
    /\ arg[1].source = <<66>> /\ arg[2].source = <<65>> /\ arg[3].source = <<66>>
    /\ arg[1] # arg[3]

\* the number of items of the list that carry the source name
CountOf(items, source) == Cardinality({i \in 1..Len(items) : items[i].source = source})

RECURSIVE SumOfCounts(_, _)
SumOfCounts(doc, i) ==
    IF i = 0 THEN 0
    ELSE SumOfCounts(doc, i - 1) + (IF doc[i].kind = "count" THEN doc[i].n ELSE 0)

\* C11: for a non-empty list there is one total line, with N the number of items
\* and M the number of distinct source names; every count line shows the number of
\* items of its source, the counts add up to N, and a count line says "item" when
\* its count is 1 and "items" otherwise.
C11_RenderCounts ==
    (call = "returned" /\ arg # <<>>) =>
        /\ Cardinality(Positions(out, "total")) = 1
        /\ \A i \in Positions(out, "total") :
              /\ out[i].n = Len(arg)
              /\ out[i].m = Cardinality({arg[k].source : k \in 1..Len(arg)})
        /\ \A i \in Positions(out, "count") :
              /\ out[i].n = CountOf(arg, out[i].source)
              /\ out[i].plural = (out[i].n # 1)
        /\ SumOfCounts(out, Len(out)) = Len(arg)

\* three items, two of one source and one of another: a count of 2 and a count of 1
C11_Witness ==
    /\ call = "returned"
    /\ Len(arg) = 3
    /\ \E i, j \in Positions(out, "count") : out[i].n = 2 /\ out[j].n = 1

\* the summary with its tags removed, its entities decoded and its ends trimmed
Cleaned(text) == Strip(unescape(StripTags(text)))

\* C12: for a budget of at least 1 the result of summarize is at most max_chars
\* long; when the cleaned text is longer than max_chars the result is a prefix of
\* it followed by one ellipsis; when it is not, the result is the cleaned text.
C12_TruncationBound ==
    (call = "returned" /\ arg.max_chars >= 1) =>
        /\ Len(out) <= arg.max_chars
        /\ IF Len(Cleaned(arg.text)) > arg.max_chars
           THEN /\ out # <<>>
                /\ out[Len(out)] = Ellipsis
                /\ SubSeq(out, 1, Len(out) - 1)
                       = SubSeq(Cleaned(arg.text), 1, Len(out) - 1)
           ELSE out = Cleaned(arg.text)

\* the cut fell after a blank: the result is shorter than the budget and ends in
\* the ellipsis
C12_Witness ==
    /\ call = "returned"
    /\ Len(Cleaned(arg.text)) > arg.max_chars
    /\ Len(out) < arg.max_chars
    /\ out[Len(out)] = Ellipsis

\* C13: under an empty keyword list the matcher answers false for every entry, and
\* still every entry whose hash the ledger does not hold when the loop reaches it
\* is collected and its hash appended.
C13_EmptyListDisablesFilter ==
    [][AtEntry /\ kw = <<>> =>
         /\ ~matches_keywords(Title(d[ei]), Summary(d[ei]), kw)
         /\ (~Known(Fingerprint(d[ei]), seen.hashes) =>
               /\ collected' = Append(collected, Item(feeds[fi].name, d[ei]))
               /\ seen'.hashes = Append(seen.hashes, Fingerprint(d[ei])))]_vars

\* under the empty list the loop collected an entry that the keyword list "a"
\* would have rejected
C13_Witness ==
    /\ last.gate = "collected"
    /\ kw = <<>>
    /\ ~matches_keywords(Title(last.entry), Summary(last.entry), <<<<97>>>>)
    /\ collected # <<>>
    /\ collected[Len(collected)].title = Title(last.entry)
    /\ Known(Fingerprint(last.entry), seen.hashes)

\* C14: when an invocation has completed, the README holds one link, labelled
\* with the date of the invocation and pointing at the digest of that date, which
\* is on disk; nothing of the README the invocation found is left.
C14_IndexPointer ==
    pc = "done" =>
        /\ fs.readme = <<[label |-> today, target |-> today]>>
        /\ today \in Dates
        /\ fs.digests[today] # <<>>
        /\ fs.digests[today][1] = [Ln EXCEPT !.kind = "title", !.date = today]

\* the invocation found a README that linked to the digest of an earlier date and
\* left one that links to its own
C14_Witness ==
    /\ pc = "done"
    /\ fs0.readme # <<>>
    /\ fs0.readme[1].target # today
    /\ fs.readme[1].target = today
    /\ fs.digests[fs0.readme[1].target] # <<>>

\* the fingerprint of a collected item
ItemFingerprint(it) == hash_item(it.title, it.link)

\* no two collected items have the same fingerprint
DistinctFingerprints ==
    \A i, j \in 1..Len(collected) :
        i # j => ItemFingerprint(collected[i]) # ItemFingerprint(collected[j])

\* a step taken while the sources are walked keeps the seen list as a prefix
LedgerOnlyGrows ==
    pc \in {"feeds", "entries"} =>
        /\ Len(seen'.hashes) >= Len(seen.hashes)
        /\ SubSeq(seen'.hashes, 1, Len(seen.hashes)) = seen.hashes

\* C15: while the sources are walked the seen list never gets shorter, and at no
\* point of an invocation do two collected items have the same fingerprint.
C15_CompactionIsPostPass == [](InRun => DistinctFingerprints) /\ [][LedgerOnlyGrows]_vars

\* the invocation collected more items than max_len, skipped a later entry whose
\* fingerprint it had inserted itself, and the cap then dropped that fingerprint
C15_Witness ==
    /\ pc = "done"
    /\ Len(collected) > seen.max_len
    /\ last.gate = "dup"
    /\ ~Known(Fingerprint(last.entry), fs0.seen_file.hashes)
    /\ ~Known(Fingerprint(last.entry), seen.hashes)
    /\ \E i \in 1..Len(collected) : ItemFingerprint(collected[i]) = Fingerprint(last.entry)

\* the hashes the invocation loaded: those of seen.json as it found it, or none
\* when there was no seen.json
Loaded == IF fs0.seen_file.kind = "json" THEN fs0.seen_file.hashes ELSE <<>>

FingerprintsOf(items) == [i \in 1..Len(items) |-> ItemFingerprint(items[i])]

\* C16: while the sources are walked and until the cap, the seen list is the
\* loaded hashes followed by the fingerprints of the collected items, one each and
\* in their order; the list the cap receives is that very list.
C16_CollectInsertCoupled ==
    /\ (pc \in {"feeds", "entries", "cap"} /\ seen.has_hashes) =>
          seen.hashes = Loaded \o FingerprintsOf(collected)
    /\ Capped => pre = Loaded \o FingerprintsOf(collected)

\* the loop is over: a hash was loaded, two items collected and an entry skipped
C16_Witness ==
    /\ pc = "cap"
    /\ Len(Loaded) >= 1
    /\ Len(collected) = 2
    /\ Len(Enumerated(Len(fetched))) > 2
    /\ seen.hashes = Loaded \o FingerprintsOf(collected)

\* C17: seen.json, which held no hash twice before the first invocation, holds no
\* hash twice at any later time, and neither does the seen list in memory.
C17_NoDuplicatesInLedger ==
    /\ NoRepeats(fs.seen_file.hashes)
    /\ InRun => NoRepeats(seen.hashes)

\* the second invocation met an entry whose hash seen.json held, skipped it,
\* collected another and saved a list of two hashes
C17_Witness ==
    /\ pc = "done" /\ runs = 2
    /\ fs0.seen_file.kind = "json" /\ fs0.seen_file.hashes # <<>>
    /\ \E i \in 1..Len(fetched) : \E j \in 1..Len(fetched[i]) :
           Known(Fingerprint(fetched[i][j]), fs0.seen_file.hashes)
    /\ collected # <<>>
    /\ Len(fs.seen_file.hashes) >= 2

\* the digests on disk show an item with the fingerprint
ShownIn(digests, h) ==
    \E day \in Dates : \E i \in 1..Len(digests[day]) :
        /\ digests[day][i].kind = "item"
        /\ hash_item(digests[day][i].title, digests[day][i].link) = h

\* C18: when an invocation has completed, every hash of seen.json that belongs to
\* an item it collected, or to an item a digest showed when it began, belongs to
\* an item that a digest on disk shows.
C18_RecordedItemStaysVisible ==
    pc = "done" =>
        \A h \in Range(fs.seen_file.hashes) :
            (ShownIn(fs0.digests, h) \/ h \in Range(FingerprintsOf(collected)))
                => ShownIn(fs.digests, h)

\* the invocation has begun and has not failed: it is under way, has completed, or
\* was stopped between two writes
Underway == InRun \/ pc = "killed"

\* the digest of the date shows an item with the fingerprint
ShownOn(day, h) ==
    \E i \in 1..Len(fs.digests[day]) :
        /\ fs.digests[day][i].kind = "item"
        /\ hash_item(fs.digests[day][i].title, fs.digests[day][i].link) = h

\* seen.json is written only once the digest of the invocation is on disk, and the
\* README only once seen.json holds the capped list
WritesInOrder ==
    /\ fs'.seen_file # fs.seen_file =>
          /\ fs.digests[today] # <<>>
          /\ \A i \in 1..Len(collected) : ShownOn(today, ItemFingerprint(collected[i]))
          /\ fs'.readme = fs.readme
    /\ fs'.readme # fs.readme =>
          /\ fs.seen_file.kind = "json" /\ fs.seen_file.hashes = seen.hashes
          /\ fs.digests[today] # <<>>
    /\ fs'.digests # fs.digests =>
          fs'.seen_file = fs.seen_file /\ fs'.readme = fs.readme

\* C19: the digest is written before seen.json and seen.json before the README;
\* at every point of an invocation, also one stopped between two writes, a hash
\* in seen.json that the invocation inserted belongs to an item the digest of the
\* day shows, and every link of the README points at a digest that is on disk.
C19_WriteOrdering ==
    /\ [](Underway =>
            /\ \A i \in 1..Len(collected) :
                  Known(ItemFingerprint(collected[i]), fs.seen_file.hashes)
                      => ShownOn(today, ItemFingerprint(collected[i]))
            /\ \A i \in 1..Len(fs.readme) : fs.digests[fs.readme[i].target] # <<>>)
    /\ [][WritesInOrder]_vars

\* the invocation was stopped after it saved seen.json and before it rewrote the
\* README, which still links to the digest of an earlier day
C19_Witness ==
    /\ pc = "killed"
    /\ collected # <<>>
    /\ Known(ItemFingerprint(collected[1]), fs.seen_file.hashes)
    /\ ~Known(ItemFingerprint(collected[1]), fs0.seen_file.hashes)
    /\ fs.readme # <<>> /\ fs.readme[1].target # today

\* C20: an invocation that found a seen.json with a max_len keeps that max_len in
\* memory and on disk; and one that collected nothing from a list of at most
\* max_len hashes saves the hashes it loaded, in their order.
C20_LedgerFrame ==
    /\ (Underway /\ fs0.seen_file.kind = "json" /\ fs0.seen_file.has_max_len) =>
          /\ fs.seen_file.has_max_len
          /\ fs.seen_file.max_len = fs0.seen_file.max_len
          /\ (pc # "load_seen" => seen.max_len = fs0.seen_file.max_len)
    /\ (pc \in {"update_readme", "done"} /\ collected = <<>>
          /\ Len(Loaded) <= seen.max_len) =>
          fs.seen_file.hashes = Loaded

\* the invocation loaded two hashes under a max_len of 2, skipped or rejected
\* every entry it was served, and saved the same two hashes
C20_Witness ==
    /\ pc = "done"
    /\ collected = <<>>
    /\ last.gate \in {"dup", "filtered"}
    /\ Len(Loaded) = 2 /\ fs0.seen_file.max_len = 2
    /\ fs.seen_file.hashes = Loaded

====
